---- MODULE Spec2Model ----
(***************************************************************************)
(* Model of extract-thread.py (slack-thread-extractor).                    *)
(*                                                                         *)
(* Python values are tagged records [t, v]: t is the Python type, v the    *)
(* payload.  A str is the sequence of its characters, a list the sequence  *)
(* of its items, a dict a function from its keys (TLA+ strings) to values. *)
(* A message, a block element and an attachment are dicts.                 *)
(***************************************************************************)
EXTENDS Integers, Sequences, FiniteSets, TLC

VARIABLES
    pc,                     \* where the script is: "start", "chunks", "messages", "emit", "done"
    records_per_file,       \* argument of process_slack_export
    include_bots,           \* argument of process_slack_export
    chunk_count,
    processed_messages,
    collected_threads,      \* defaultdict(list): thread_ts -> list of msg_data
    threads_with_start,
    threads_with_end,
    complete_threads_ts,
    todo,                   \* what is left of sorted(list(complete_threads_ts))
    files,                  \* the file system: part number n -> the records of {base}_part_{n}.jsonl
    open_handles,           \* part numbers whose file object is open
    output_file,            \* part number of the current file object, 0 for None
    file_counter,
    record_counter_in_file,
    total_records_written,
    error,                  \* the except clause that ran, "none" if none did
    exit_status,            \* the script's completion status, -1 while it runs
    accepted,               \* history: the raw messages that passed the check of line 134
    emit_log,               \* history: thread_ts and part number of each record, in write order
    opened,                 \* history: the part numbers passed to open(), in order
    fn_name,                \* the text function last called on its own, "none" before
    fn_arg,                 \* its argument
    fn_result               \* what it returned

pipeline_vars == <<pc, records_per_file, include_bots, chunk_count, processed_messages,
                   collected_threads, threads_with_start, threads_with_end,
                   complete_threads_ts, todo, files, open_handles, output_file,
                   file_counter, record_counter_in_file, total_records_written,
                   error, exit_status, accepted, emit_log, opened>>

fn_vars == <<fn_name, fn_arg, fn_result>>

vars == <<pipeline_vars, fn_vars>>

----------------------------------------------------------------------------
(* Python values *)

PyNone == [t |-> "none", v |-> 0]

PyStr(s) == [t |-> "str", v |-> s]

PyNum(n) == [t |-> "num", v |-> n]

PyList(l) == [t |-> "list", v |-> l]

PyDict(d) == [t |-> "dict", v |-> d]

EmptyStr == PyStr(<<>>)

\* bool(v)
Truthy(v) ==
    CASE v.t = "none" -> FALSE
      [] v.t = "str"  -> Len(v.v) > 0
      [] v.t = "num"  -> v.v # 0
      [] v.t = "list" -> Len(v.v) > 0
      [] v.t = "dict" -> DOMAIN v.v # {}

\* d.get(k, default) of a dict d
Get(d, k, default) == IF k \in DOMAIN d THEN d[k] ELSE default

\* a or b
PyOr(a, b) == IF Truthy(a) THEN a ELSE b

Digits == <<"0", "1", "2", "3", "4", "5", "6", "7", "8", "9">>

\* str(v) inside an f-string, for the types the inputs put there (numbers: 0..9)
Format(v) ==
    CASE v.t = "str"  -> v.v
      [] v.t = "none" -> <<"N", "o", "n", "e">>
      [] v.t = "num"  -> <<Digits[v.v + 1]>>

Whitespace == {" ", "\n", "\t"}

RECURSIVE LStrip(_)
LStrip(s) == IF s # <<>> /\ Head(s) \in Whitespace THEN LStrip(Tail(s)) ELSE s

RECURSIVE RStrip(_)
RStrip(s) ==
    IF s # <<>> /\ s[Len(s)] \in Whitespace THEN RStrip(SubSeq(s, 1, Len(s) - 1)) ELSE s

\* s.strip()
Strip(s) == RStrip(LStrip(s))

\* sep.join(parts), parts a sequence of character sequences
RECURSIVE Join(_, _)
Join(sep, parts) ==
    IF parts = <<>> THEN <<>>
    ELSE IF Len(parts) = 1 THEN parts[1]
    ELSE parts[1] \o sep \o Join(sep, Tail(parts))

\* sub in s, for strings
IsSubstring(sub, s) ==
    \E i \in 1..(Len(s) - Len(sub) + 1) : SubSeq(s, i, i + Len(sub) - 1) = sub

StartsWith(s, p) == Len(s) >= Len(p) /\ SubSeq(s, 1, Len(p)) = p

\* The characters of the keys that are looked up with "in"
KeyChars(k) ==
    CASE k = "elements" -> <<"e", "l", "e", "m", "e", "n", "t", "s">>
      [] k = "text"     -> <<"t", "e", "x", "t">>
      [] k = "title"    -> <<"t", "i", "t", "l", "e">>

S_text == PyStr(<<"t", "e", "x", "t">>)

S_user == PyStr(<<"u", "s", "e", "r">>)

S_link == PyStr(<<"l", "i", "n", "k">>)

S_emoji == PyStr(<<"e", "m", "o", "j", "i">>)

S_usergroup == PyStr(<<"u", "s", "e", "r", "g", "r", "o", "u", "p">>)

S_channel == PyStr(<<"c", "h", "a", "n", "n", "e", "l">>)

S_message == PyStr(<<"m", "e", "s", "s", "a", "g", "e">>)

S_bot_message == PyStr(<<"b", "o", "t", "_", "m", "e", "s", "s", "a", "g", "e">>)

----------------------------------------------------------------------------
(* extract_text_from_element *)

\* Lines 19-33: the text the node itself appends
OwnText(d) ==
    LET element_type == Get(d, "type", PyNone) IN
    CASE element_type = S_text      -> <<Get(d, "text", EmptyStr)>>
      [] element_type = S_user      -> <<PyStr(<<"<", "@">> \o Format(Get(d, "user_id", EmptyStr)) \o <<">">>)>>
      [] element_type = S_link      -> <<PyOr(Get(d, "text", PyNone), Get(d, "url", EmptyStr))>>
      [] element_type = S_emoji     -> <<PyStr(<<":">> \o Format(Get(d, "name", EmptyStr)) \o <<":">>)>>
      [] element_type = S_usergroup -> <<PyStr(<<"<", "!", "s", "u", "b", "t", "e", "a", "m", "^">>
                                               \o Format(Get(d, "usergroup_id", EmptyStr)) \o <<">">>)>>
      [] element_type = S_channel   -> <<PyStr(<<"<", "#">> \o Format(Get(d, "channel_id", EmptyStr)) \o <<">">>)>>
      [] OTHER                      -> <<>>

RECURSIVE extract_text_from_element(_)
RECURSIVE ExtendEach(_)

\* for sub_element in l: text_parts.extend(extract_text_from_element(sub_element))
ExtendEach(l) ==
    IF l = <<>> THEN <<>>
    ELSE extract_text_from_element(Head(l)) \o ExtendEach(Tail(l))

\* Lines 35-42: the if / elif / elif over elements, text and title
NestedText(d) ==
    IF "elements" \in DOMAIN d /\ d["elements"].t = "list"
    THEN ExtendEach(d["elements"].v)
    ELSE IF "text" \in DOMAIN d /\ d["text"].t = "dict"
    THEN extract_text_from_element(d["text"])
    ELSE IF "title" \in DOMAIN d /\ d["title"].t = "dict"
    THEN extract_text_from_element(d["title"])
    ELSE <<>>

\* A faulty variant: the nested elements are visited before the node's own text is
\* appended
NestedFirst(element) ==
    IF element.t = "dict" THEN NestedText(element.v) \o OwnText(element.v)
    ELSE IF element.t = "list" THEN ExtendEach(element.v)
    ELSE <<>>

\* The list text_parts the function returns
extract_text_from_element(element) ==
    IF element.t = "dict" THEN OwnText(element.v) \o NestedText(element.v)
    ELSE IF element.t = "list" THEN ExtendEach(element.v)
    ELSE <<>>

----------------------------------------------------------------------------
(* extract_text_from_message *)

\* "key in block and isinstance(block[key], want)": "yes", "no", or "raise" when
\* Python raises (in on None or a number; a str index into a list or a str)
Probe(block, key, want) ==
    CASE block.t \in {"none", "num"} -> "raise"
      [] block.t = "dict" ->
            IF key \in DOMAIN block.v /\ block.v[key].t = want THEN "yes" ELSE "no"
      [] block.t = "list" ->
            IF \E i \in 1..Len(block.v) : block.v[i] = PyStr(KeyChars(key)) THEN "raise" ELSE "no"
      [] block.t = "str" ->
            IF IsSubstring(KeyChars(key), block.v) THEN "raise" ELSE "no"

Raised == [ok |-> FALSE, parts |-> <<>>]

Parts(p) == [ok |-> TRUE, parts |-> p]

\* Two steps in a row: the second's parts after the first's, unless one raised
Both(first, rest) ==
    IF first.ok /\ rest.ok THEN Parts(first.parts \o rest.parts) ELSE Raised

\* Lines 58-65 once the three conditions are known
BlockParts(block, pe, px, pt) ==
    IF "raise" \in {pe, px, pt} THEN Raised
    ELSE Parts((IF pe = "yes" THEN ExtendEach(block.v["elements"].v) ELSE <<>>)
               \o (IF px = "yes" THEN extract_text_from_element(block.v["text"]) ELSE <<>>)
               \o (IF pt = "yes" THEN extract_text_from_element(block.v["title"]) ELSE <<>>))

\* Lines 58-65: what one block adds to all_texts
BlockTexts(block) ==
    BlockParts(block, Probe(block, "elements", "list"), Probe(block, "text", "dict"),
               Probe(block, "title", "dict"))

\* Lines 56-65: for block in blocks, over the items
RECURSIVE AllBlockTexts(_)
AllBlockTexts(blocks) ==
    IF blocks = <<>> THEN Parts(<<>>)
    ELSE Both(BlockTexts(Head(blocks)), AllBlockTexts(Tail(blocks)))

\* The items a for loop takes from a truthy list, str or number (a number is not
\* iterable: TypeError)
Iterate(v) ==
    CASE v.t = "list" -> Parts(v.v)
      [] v.t = "str"  -> Parts([i \in 1..Len(v.v) |-> PyStr(<<v.v[i]>>)])
      [] v.t = "num"  -> Raised

\* Line 67: " ".join(...).strip() over the truthy parts; a part that is no str raises
JoinKept(kept) ==
    IF \E i \in 1..Len(kept) : kept[i].t # "str" THEN Raised
    ELSE Parts(Strip(Join(<<" ">>, [i \in 1..Len(kept) |-> kept[i].v])))

\* Line 67: " ".join(part for part in all_texts if part).strip()
JoinTexts(all_texts) ==
    IF all_texts.ok THEN JoinKept(SelectSeq(all_texts.parts, Truthy)) ELSE Raised

\* Line 56: the loop over what message['blocks'] yields
OverBlocks(it) == IF it.ok THEN AllBlockTexts(it.parts) ELSE Raised

NoValue == [ok |-> FALSE, val |-> PyNone]

Value(x) == [ok |-> TRUE, val |-> x]

AsValue(joined) == IF joined.ok THEN Value(PyStr(joined.parts)) ELSE NoValue

\* Lines 54-67: text_content after the blocks
FromBlocks(message) ==
    IF "blocks" \in DOMAIN message /\ Truthy(message["blocks"])
    THEN AsValue(JoinTexts(OverBlocks(Iterate(message["blocks"]))))
    ELSE Value(EmptyStr)

\* Line 77
AttachmentText(att) == PyOr(Get(att, "text", PyNone), Get(att, "fallback", PyNone))

\* Lines 76-78: the loop over the attachments, text_content being tc before it
RECURSIVE FromAttachments(_, _)
FromAttachments(atts, tc) ==
    IF atts = <<>> THEN Value(tc)
    ELSE IF Head(atts).t # "dict" THEN NoValue
    ELSE IF Truthy(AttachmentText(Head(atts).v)) THEN Value(AttachmentText(Head(atts).v))
    ELSE FromAttachments(Tail(atts), AttachmentText(Head(atts).v))

\* Lines 74-78, text_content being t: a number is not iterable, and the items of a
\* str or of a dict have no get
AfterText(message, t) ==
    IF Truthy(t) THEN Value(t)
    ELSE IF "attachments" \in DOMAIN message /\ Truthy(message["attachments"])
    THEN IF message["attachments"].t = "list"
         THEN FromAttachments(message["attachments"].v, t)
         ELSE NoValue
    ELSE Value(t)

\* Lines 70-78, b being the outcome of lines 54-67
AfterBlocks(message, b) ==
    IF ~b.ok THEN NoValue
    ELSE AfterText(message, IF ~Truthy(b.val) /\ "text" \in DOMAIN message
                            THEN Get(message, "text", EmptyStr) ELSE b.val)

\* Lines 53-78: the body of the try
TryBody(message) == AfterBlocks(message, FromBlocks(message))

\* Lines 80-84: the except clause and the return
Returned(message, body) ==
    PyOr(IF body.ok THEN body.val ELSE Get(message, "text", EmptyStr), EmptyStr)

\* What the function returns
extract_text_from_message(message) == Returned(message, TryBody(message))

----------------------------------------------------------------------------
(* process_slack_export: the arguments and the scan of the input *)

\* --start_emoji and --end_emoji, as in the help text of lines 278-279
start_emoji == PyStr(<<"h", "a", "n", "d">>)

end_emoji == PyStr(<<"d", "o", "n", "e">>)

\* Line 134: what the scan accepts
IsValidMessage(message) ==
    /\ message.t = "dict"
    /\ Get(message.v, "type", PyNone) = S_message
    /\ "ts" \in DOMAIN message.v

\* A faulty variant: every message is filed under its own ts
ThreadTsOwn(message) == Get(message, "ts", PyNone)

\* Line 138
ThreadTs(message) == Get(message, "thread_ts", Get(message, "ts", PyNone))

\* Lines 140-151
MsgData(message) ==
    [ts        |-> Get(message, "ts", PyNone),
     thread_ts |-> Get(message, "thread_ts", PyNone),
     user      |-> Get(message, "user", PyNone),
     bot_id    |-> Get(message, "bot_id", PyNone),
     username  |-> Get(message, "username", PyNone),
     subtype   |-> Get(message, "subtype", PyNone),
     text      |-> Get(message, "text", PyNone),
     blocks    |-> Get(message, "blocks", PyNone),
     reactions |-> Get(message, "reactions", PyList(<<>>)),
     files     |-> Get(message, "files", PyNone)]

\* A faulty variant: the end marker counts only on a message that also carries the
\* start marker
ScanReactionsSameMessage(reactions) ==
    IF reactions.t = "list"
    THEN LET rs == reactions.v
             starts == \E i \in 1..Len(rs) : Get(rs[i].v, "name", PyNone) = start_emoji
         IN
         IF \E i \in 1..Len(rs) : rs[i].t # "dict"
         THEN [ok |-> FALSE, has_start |-> FALSE, has_end |-> FALSE]
         ELSE [ok |-> TRUE,
               has_start |-> starts,
               has_end   |-> starts /\ \E i \in 1..Len(rs) : Get(rs[i].v, "name", PyNone) = end_emoji]
    ELSE IF reactions.t \in {"str", "dict"} /\ ~Truthy(reactions)
    THEN [ok |-> TRUE, has_start |-> FALSE, has_end |-> FALSE]
    ELSE [ok |-> FALSE, has_start |-> FALSE, has_end |-> FALSE]

\* Lines 155-161: the loop over msg_data['reactions']; ok is FALSE when it raises
\* (None or a number is not iterable; an item that is no dict has no get)
ScanReactions(reactions) ==
    IF reactions.t = "list"
    THEN LET rs == reactions.v IN
         IF \E i \in 1..Len(rs) : rs[i].t # "dict"
         THEN [ok |-> FALSE, has_start |-> FALSE, has_end |-> FALSE]
         ELSE [ok |-> TRUE,
               has_start |-> \E i \in 1..Len(rs) : Get(rs[i].v, "name", PyNone) = start_emoji,
               has_end   |-> \E i \in 1..Len(rs) : Get(rs[i].v, "name", PyNone) = end_emoji]
    ELSE IF reactions.t \in {"str", "dict"} /\ ~Truthy(reactions)
    THEN [ok |-> TRUE, has_start |-> FALSE, has_end |-> FALSE]
    ELSE [ok |-> FALSE, has_start |-> FALSE, has_end |-> FALSE]

\* Line 152: collected_threads[thread_ts].append(msg_data), on a defaultdict(list)
AppendTo(threads, thread_ts, msg_data) ==
    IF thread_ts \in DOMAIN threads
    THEN [threads EXCEPT ![thread_ts] = Append(@, msg_data)]
    ELSE (thread_ts :> <<msg_data>>) @@ threads

----------------------------------------------------------------------------
(* process_slack_export: the emit loop *)

\* ord(c) of the characters of a timestamp
Ord(c) ==
    IF c = "." THEN 46
    ELSE 47 + (CHOOSE i \in 1..Len(Digits) : Digits[i] = c)

\* a < b between two str, as sorted() compares them: by code point, a prefix first
RECURSIVE StrLess(_, _)
StrLess(a, b) ==
    IF b = <<>> THEN FALSE
    ELSE IF a = <<>> THEN TRUE
    ELSE IF Head(a) = Head(b) THEN StrLess(Tail(a), Tail(b))
    ELSE Ord(Head(a)) < Ord(Head(b))

\* Line 203: sorted(list(complete_threads_ts)), the roots being str
RECURSIVE SortedRoots(_)
SortedRoots(S) ==
    IF S = {} THEN <<>>
    ELSE LET least == CHOOSE x \in S : \A y \in S \ {x} : StrLess(x.v, y.v)
         IN  <<least>> \o SortedRoots(S \ {least})

RECURSIVE DigitsValue(_)
DigitsValue(s) ==
    IF s = <<>> THEN 0
    ELSE 10 * DigitsValue(SubSeq(s, 1, Len(s) - 1)) + (Ord(s[Len(s)]) - Ord("0"))

\* float(s) of a decimal string with at most one digit after the point, in tenths
FloatTenths(s) ==
    LET dot == IF \E i \in 1..Len(s) : s[i] = "."
               THEN CHOOSE i \in 1..Len(s) : s[i] = "."
               ELSE Len(s) + 1
        frac == SubSeq(s, dot + 1, Len(s))
    IN  10 * DigitsValue(SubSeq(s, 1, dot - 1)) + DigitsValue(frac)

\* Line 207: the key of the sort
SortKey(m) == FloatTenths(m["ts"].v)

\* A faulty variant: the messages of a thread are ordered by their ts as strings
RECURSIVE InsertByStr(_, _)
InsertByStr(sorted, m) ==
    IF sorted = <<>> THEN <<m>>
    ELSE IF ~StrLess(m["ts"].v, Head(sorted)["ts"].v)
    THEN <<Head(sorted)>> \o InsertByStr(Tail(sorted), m)
    ELSE <<m>> \o sorted

\* m goes after the items whose key is not greater: the sort is stable
RECURSIVE InsertByKey(_, _)
InsertByKey(sorted, m) ==
    IF sorted = <<>> THEN <<m>>
    ELSE IF SortKey(Head(sorted)) <= SortKey(m)
    THEN <<Head(sorted)>> \o InsertByKey(Tail(sorted), m)
    ELSE <<m>> \o sorted

\* Line 207: sorted(thread_messages, key=lambda m: float(m['ts']))
RECURSIVE SortedThread(_)
SortedThread(thread_messages) ==
    IF thread_messages = <<>> THEN <<>>
    ELSE InsertByKey(SortedThread(SubSeq(thread_messages, 1, Len(thread_messages) - 1)),
                     thread_messages[Len(thread_messages)])

\* r.strip(): a value that is no str has no strip
StripOf(r) == IF r.t = "str" THEN Parts(Strip(r.v)) ELSE Raised

\* extract_text_from_message(m).strip()
StrippedText(m) == StripOf(extract_text_from_message(m))

\* Line 219
IsBot(msg) == Get(msg, "subtype", PyNone) = S_bot_message \/ Truthy(Get(msg, "bot_id", PyNone))

\* Lines 225-229
Prefix(msg) ==
    IF IsBot(msg)
    THEN LET bot_name == Get(msg, "username", Get(msg, "bot_id", PyStr(<<"B", "o", "t">>)))
         IN  <<"B", "o", "t", " ", "[">> \o Format(bot_name) \o <<"]", ":">>
    ELSE <<"U", "s", "e", "r", " ", "[">>
             \o Format(Get(msg, "user", PyStr(<<"U", "n", "k", "n", "o", "w", "n">>)))
             \o <<"]", ":">>

\* Lines 223-231, msg_text being known
Rendered(msg, msg_text) ==
    IF ~msg_text.ok THEN Raised
    ELSE IF msg_text.parts = <<>> /\ ~Truthy(Get(msg, "files", PyNone)) THEN Parts(<<>>)
    ELSE Parts(<<Prefix(msg) \o <<" ">> \o msg_text.parts>>)

\* Lines 219-231 for one reply: the lines it adds to completion_parts
ReplyLines(msg, bots) ==
    IF ~bots /\ IsBot(msg) THEN Parts(<<>>)
    ELSE Rendered(msg, StrippedText(msg))

\* Lines 217-231: completion_parts
RECURSIVE CompletionParts(_, _)
CompletionParts(replies, bots) ==
    IF replies = <<>> THEN Parts(<<>>)
    ELSE Both(ReplyLines(Head(replies), bots), CompletionParts(Tail(replies), bots))

NoRecord == [prompt |-> <<>>, completion |-> <<>>]

\* Lines 233-242
WithCompletion(prompt_text, completion_parts) ==
    IF ~completion_parts.ok THEN [st |-> "raise", rec |-> NoRecord]
    ELSE [st |-> "record",
          rec |-> [prompt |-> prompt_text,
                   completion |-> Strip(Join(<<"\n">>, completion_parts.parts))]]

\* Lines 213-242
WithPrompt(prompt_text, replies, bots) ==
    IF ~prompt_text.ok THEN [st |-> "raise", rec |-> NoRecord]
    ELSE IF prompt_text.parts = <<>> THEN [st |-> "skip", rec |-> NoRecord]
    ELSE WithCompletion(prompt_text.parts, CompletionParts(replies, bots))

\* Lines 208-242
FromSorted(sorted_thread, bots) ==
    IF sorted_thread = <<>> THEN [st |-> "skip", rec |-> NoRecord]
    ELSE WithPrompt(StrippedText(sorted_thread[1]), Tail(sorted_thread), bots)

\* Lines 204-242 for one thread: st is "raise" (an exception), "skip" (continue)
\* or "record" (output_record is rec)
BuildRecord(thread_messages, bots) == FromSorted(SortedThread(thread_messages), bots)

----------------------------------------------------------------------------
(* The inputs *)

MaxMessages == 3

MaxChunks == 2

Absent == [t |-> "absent", v |-> 0]

\* The item k: v of a dict, nothing when the key is absent
Item(k, v) == IF v = Absent THEN <<>> ELSE (k :> v)

TS == {PyStr(<<"9">>), PyStr(<<"9", "9", ".", "2">>), PyStr(<<"1", "0", "0", ".", "5">>)}

Reaction(name) == PyDict([name |-> PyStr(name), count |-> PyNum(1)])

R_start == Reaction(start_emoji.v)

R_end == Reaction(end_emoji.v)

R_other == Reaction(<<"e", "y", "e", "s">>)

T_hi == PyStr(<<"h", "i">>)

U1 == PyStr(<<"U", "1">>)

\* Messages the scan skips (line 134): no dict, no type, another type, no ts
InvalidMessages ==
    {PyStr(<<"x">>),
     PyDict([ts |-> PyStr(<<"9">>), text |-> T_hi]),
     PyDict([type |-> PyStr(<<"j", "o", "i", "n">>), ts |-> PyStr(<<"9">>)]),
     PyDict([type |-> S_message, text |-> T_hi])}

\* Messages whose reactions make the scan raise: an item that is no dict, and null
MalformedMessages ==
    {PyDict([type |-> S_message, ts |-> ts, reactions |-> rx]) :
        ts \in TS, rx \in {PyList(<<R_start, PyStr(<<"x">>)>>), PyNone}}

\* Thread starts that carry both markers and an empty text: their thread is passed over
EmptyStarts ==
    {PyDict([type |-> S_message, ts |-> ts, user |-> U1, text |-> EmptyStr,
             reactions |-> PyList(<<R_start, R_end>>)]) : ts \in TS}

CommonMessages == InvalidMessages \cup MalformedMessages \cup EmptyStarts

\* Messages of one author with every thread reference and every reaction list
ScanMessages ==
    {PyDict([type |-> S_message, ts |-> ts, user |-> U1, text |-> T_hi]
            @@ Item("thread_ts", th) @@ Item("reactions", rx)) :
        ts \in TS, th \in TS \cup {Absent},
        rx \in {Absent, PyList(<<R_start>>), PyList(<<R_end>>), PyList(<<R_other>>),
                PyList(<<R_start, R_other, R_end>>)}}

B1 == PyStr(<<"B", "1">>)

T_yo == PyStr(<<"y", "o">>)

\* The authors and contents of a message: a user, no user and a text to trim, a bot
\* with a name, a bot with an id only, a bot by subtype only, an empty text, a file only
Profiles ==
    {[user |-> U1, text |-> T_hi],
     [text |-> PyStr(<<" ", "o", "k", " ">>)],
     [bot_id |-> B1, username |-> PyStr(<<"b", "o", "t">>), text |-> T_yo],
     [bot_id |-> B1, text |-> T_yo],
     [subtype |-> S_bot_message, text |-> T_yo],
     [user |-> U1, text |-> EmptyStr],
     [user |-> U1, files |-> PyList(<<PyDict([id |-> PyStr(<<"F">>)])>>)]}

\* Thread starts that carry both markers, and replies to another message, of every profile
AuthorMessages ==
    {PyDict([type |-> S_message, ts |-> ts, reactions |-> PyList(<<R_start, R_end>>)] @@ p) :
        ts \in TS, p \in Profiles}
    \cup
    {PyDict([type |-> S_message, ts |-> ts, thread_ts |-> th] @@ p) :
        ts \in TS, th \in TS, p \in Profiles}

A_text == PyList(<<PyDict([text |-> PyStr(<<"a", "t", "t">>), fallback |-> PyStr(<<"f", "b">>)])>>)

A_fallback == PyList(<<PyDict([fallback |-> PyStr(<<"f", "b">>)])>>)

\* The contents of a message of one author: a text, attachments alone (the first
\* with a text of its own, or with a fallback text only), an empty text and attachments
AttachmentProfiles ==
    {[text |-> T_hi],
     [attachments |-> A_text],
     [attachments |-> A_fallback],
     [text |-> EmptyStr, attachments |-> A_text]}

\* Thread starts that carry both markers, and replies, of every such content
AttachmentMessages ==
    {PyDict([type |-> S_message, ts |-> ts, user |-> U1,
             reactions |-> PyList(<<R_start, R_end>>)] @@ p) :
        ts \in TS, p \in AttachmentProfiles}
    \cup
    {PyDict([type |-> S_message, ts |-> ts, thread_ts |-> th, user |-> U1] @@ p) :
        ts \in TS, th \in TS, p \in AttachmentProfiles}

MaxRotateMessages == 5

RotateTS ==
    {PyStr(<<"8">>), PyStr(<<"9">>), PyStr(<<"1", "0">>), PyStr(<<"1", "1">>), PyStr(<<"1", "2">>),
     PyStr(<<"1", "3">>)}

\* One-message threads that carry both markers, with a text or with an empty one
RotateMessages ==
    {PyDict([type |-> S_message, ts |-> ts, user |-> U1, text |-> tx,
             reactions |-> PyList(<<R_start, R_end>>)]) :
        ts \in RotateTS, tx \in {T_hi, EmptyStr}}

----------------------------------------------------------------------------
(* The inputs of the text functions *)

S_section == PyStr(<<"r", "i", "c", "h", "_", "t", "e", "x", "t", "_", "s", "e", "c", "t", "i", "o", "n">>)

\* Leaves of a rich-text tree: one or more per type, with and without their payload
Leaves ==
    {PyDict([type |-> S_text, text |-> T_hi]),
     PyDict([type |-> S_text]),
     PyDict([type |-> S_user, user_id |-> U1]),
     PyDict([type |-> S_link, text |-> PyStr(<<"g", "o">>), url |-> PyStr(<<"u">>)]),
     PyDict([type |-> S_link, url |-> PyStr(<<"u">>)]),
     PyDict([type |-> S_link]),
     PyDict([type |-> S_emoji, name |-> PyStr(<<"o", "k">>)]),
     PyDict([type |-> S_usergroup, usergroup_id |-> PyStr(<<"G">>)]),
     PyDict([type |-> S_channel, channel_id |-> PyStr(<<"C">>)]),
     PyDict([type |-> PyStr(<<"x">>)])}

\* The sequences of at most two items of S
UpToTwo(S) == {<<>>} \cup {<<a>> : a \in S} \cup {<<a, b>> : a \in S, b \in S}

\* Nodes above leaves: a section, a styled text with nested elements, a node with a
\* text or a title sub-node, a bare list
Composites ==
    {PyDict([type |-> S_section, elements |-> PyList(l)]) : l \in UpToTwo(Leaves)}
    \cup {PyDict([type |-> S_text, text |-> T_hi, elements |-> PyList(<<a>>)]) : a \in Leaves}
    \cup {PyDict([type |-> S_section, text |-> a]) : a \in Leaves}
    \cup {PyDict([title |-> a]) : a \in Leaves}
    \cup {PyList(l) : l \in UpToTwo(Leaves)}

\* Some of them, to nest once more
Nestable ==
    {PyDict([type |-> S_section, elements |-> PyList(<<a, b>>)]) :
        a \in {PyDict([type |-> S_text, text |-> T_hi])},
        b \in {PyDict([type |-> S_user, user_id |-> U1]), PyDict([type |-> PyStr(<<"x">>)])}}
    \cup {PyDict([type |-> S_section, text |-> PyDict([type |-> S_emoji, name |-> PyStr(<<"o", "k">>)])]),
          PyDict([type |-> S_text, text |-> T_hi,
                  elements |-> PyList(<<PyDict([type |-> S_link, url |-> PyStr(<<"u">>)])>>)]),
          PyList(<<PyDict([type |-> S_channel, channel_id |-> PyStr(<<"C">>)])>>)}

RichTextTrees ==
    Leaves \cup Composites
    \cup {PyDict([type |-> S_section, elements |-> PyList(l)]) : l \in UpToTwo(Nestable)}
    \cup {PyDict([title |-> a]) : a \in Nestable}
    \cup {PyList(l) : l \in UpToTwo(Nestable)}

\* The blocks field: absent, null, empty, well-formed, and malformed in each place
\* the traversal looks at
BlocksChoices ==
    {Absent, PyNone, PyList(<<>>),
     PyList(<<PyDict([type |-> S_section,
                      elements |-> PyList(<<PyDict([type |-> S_text, text |-> PyStr(<<"i", "n", " ">>)]),
                                            PyDict([type |-> S_user, user_id |-> U1])>>)])>>),
     PyList(<<PyDict([type |-> S_section,
                      text |-> PyDict([type |-> S_text, text |-> PyStr(<<"t", "o", "p">>)])])>>),
     PyList(<<PyDict([type |-> S_section, text |-> PyStr(<<"p", "l", "a", "i", "n">>)])>>),
     PyNum(5),
     PyStr(<<"a", "b">>),
     PyList(<<PyNum(5)>>),
     PyList(<<PyNone>>),
     PyList(<<PyList(<<PyStr(<<"t", "e", "x", "t">>)>>)>>),
     PyList(<<PyDict([elements |-> PyList(<<PyDict([type |-> S_text, text |-> PyNum(5)])>>)])>>),
     PyList(<<PyDict([elements |-> PyList(<<PyDict([type |-> S_text,
                          text |-> PyDict([type |-> S_text, text |-> PyStr(<<"i", "n">>)])])>>)])>>)}

\* The text field: absent, null, a str, a number, a list
TextChoices ==
    {Absent, PyNone, EmptyStr, T_hi, PyStr(<<" ", "h", "i", " ">>), PyNum(5), PyNum(0), PyList(<<T_hi>>)}

\* The attachments field
AttachmentsChoices ==
    {Absent, PyNone, PyList(<<>>),
     PyList(<<PyDict([text |-> PyStr(<<"a", "t", "t">>), fallback |-> PyStr(<<"f", "b">>)])>>),
     PyList(<<PyDict([fallback |-> PyStr(<<"f", "b">>)])>>),
     PyList(<<PyDict([id |-> PyNum(1)]), PyDict([text |-> PyStr(<<"t", "w", "o">>)])>>),
     PyList(<<PyDict([text |-> PyNum(7)])>>),
     PyList(<<PyNum(5)>>),
     PyNum(5),
     PyStr(<<"x">>)}

MessageRecords ==
    {[ts |-> PyStr(<<"9">>)] @@ Item("blocks", b) @@ Item("text", t) @@ Item("attachments", a) :
        b \in BlocksChoices, t \in TextChoices, a \in AttachmentsChoices}

----------------------------------------------------------------------------
(* The script as a state machine *)

InitFn ==
    /\ fn_name = "none"
    /\ fn_arg = PyNone
    /\ fn_result = PyNone

InitPipeline(RPF, BOTS) ==
    /\ pc = "start"
    /\ records_per_file \in RPF
    /\ include_bots \in BOTS
    /\ chunk_count = 0
    /\ processed_messages = 0
    /\ collected_threads = <<>>
    /\ threads_with_start = {}
    /\ threads_with_end = {}
    /\ complete_threads_ts = {}
    /\ todo = <<>>
    /\ files = <<>>
    /\ open_handles = {}
    /\ output_file = 0
    /\ file_counter = 1
    /\ record_counter_in_file = 0
    /\ total_records_written = 0
    /\ error = "none"
    /\ exit_status = -1
    /\ accepted = {}
    /\ emit_log = <<>>
    /\ opened = <<>>

scan_vars == <<chunk_count, processed_messages, collected_threads, threads_with_start,
               threads_with_end, accepted>>

emit_vars == <<complete_threads_ts, todo, files, open_handles, output_file, file_counter,
               record_counter_in_file, total_records_written, emit_log, opened>>

args == <<records_per_file, include_bots>>

\* process_slack_export returns and the script ends: nothing sets a status
Return ==
    /\ pc' = "done"
    /\ exit_status' = 0

\* Line 106: the input file opens
OpenInput ==
    /\ pc = "start"
    /\ pc' = "chunks"
    /\ UNCHANGED <<args, scan_vars, emit_vars, error, exit_status, fn_vars>>

\* Lines 171-173: the input file is missing
InputNotFound ==
    /\ pc = "start"
    /\ error' = "FileNotFoundError"
    /\ Return
    /\ UNCHANGED <<args, scan_vars, emit_vars, fn_vars>>

\* Lines 112-126: the parser yields a chunk that is a dict with a list of messages
NextChunk ==
    /\ pc \in {"chunks", "messages"}
    /\ chunk_count < MaxChunks
    /\ chunk_count' = chunk_count + 1
    /\ pc' = "messages"
    /\ UNCHANGED <<args, processed_messages, collected_threads, threads_with_start,
                   threads_with_end, accepted, emit_vars, error, exit_status, fn_vars>>

\* Lines 112-126: the parser yields a chunk that is skipped
SkipChunk ==
    /\ pc \in {"chunks", "messages"}
    /\ chunk_count < MaxChunks
    /\ chunk_count' = chunk_count + 1
    /\ pc' = "chunks"
    /\ UNCHANGED <<args, processed_messages, collected_threads, threads_with_start,
                   threads_with_end, accepted, emit_vars, error, exit_status, fn_vars>>

\* Lines 174-177: the parser finds the input malformed
JSONError ==
    /\ pc \in {"chunks", "messages"}
    /\ error' = "JSONError"
    /\ Return
    /\ UNCHANGED <<args, scan_vars, emit_vars, fn_vars>>

\* Lines 128-136: a message that is skipped
SkipMessage(U, max) ==
    /\ pc = "messages"
    /\ processed_messages < max
    /\ \E message \in U : ~IsValidMessage(message)
    /\ processed_messages' = processed_messages + 1
    /\ UNCHANGED <<pc, args, chunk_count, collected_threads, threads_with_start,
                   threads_with_end, accepted, emit_vars, error, exit_status, fn_vars>>

\* The ts of a message is its identity: the input holds no two messages with one ts
FreshTs(message) == \A a \in accepted : a["ts"] # message["ts"]

\* Lines 128-167: a message that is accepted
IngestMessage(U, max) ==
    /\ pc = "messages"
    /\ processed_messages < max
    /\ \E m \in U :
        /\ IsValidMessage(m)
        /\ FreshTs(m.v)
        /\ LET message == m.v
               thread_ts == ThreadTs(message)
               msg_data == MsgData(message)
               seen == ScanReactions(msg_data["reactions"])
           IN  /\ seen.ok
               /\ collected_threads' = AppendTo(collected_threads, thread_ts, msg_data)
               /\ threads_with_start' =
                      IF seen.has_start THEN threads_with_start \cup {thread_ts}
                      ELSE threads_with_start
               /\ threads_with_end' =
                      IF seen.has_end THEN threads_with_end \cup {thread_ts}
                      ELSE threads_with_end
               /\ accepted' = accepted \cup {message}
    /\ processed_messages' = processed_messages + 1
    /\ UNCHANGED <<pc, args, chunk_count, emit_vars, error, exit_status, fn_vars>>

\* Lines 128-161 and 178-180: the loop over the reactions raises
MessageRaises(U, max) ==
    /\ pc = "messages"
    /\ processed_messages < max
    /\ \E m \in U :
        /\ IsValidMessage(m)
        /\ FreshTs(m.v)
        /\ LET message == m.v
               msg_data == MsgData(message)
           IN  /\ ~ScanReactions(msg_data["reactions"]).ok
               /\ collected_threads' = AppendTo(collected_threads, ThreadTs(message), msg_data)
               /\ accepted' = accepted \cup {message}
    /\ processed_messages' = processed_messages + 1
    /\ error' = "Exception"
    /\ Return
    /\ UNCHANGED <<args, chunk_count, threads_with_start, threads_with_end, emit_vars, fn_vars>>

\* Lines 182-200: the parser is exhausted
EndScan ==
    /\ pc \in {"chunks", "messages"}
    /\ complete_threads_ts' = threads_with_start \cap threads_with_end
    /\ IF complete_threads_ts' = {}
       THEN /\ Return
            /\ todo' = <<>>
       ELSE /\ pc' = "emit"
            /\ todo' = SortedRoots(complete_threads_ts')
            /\ UNCHANGED exit_status
    /\ output_file' = 0
    /\ file_counter' = 1
    /\ record_counter_in_file' = 0
    /\ total_records_written' = 0
    /\ UNCHANGED <<args, scan_vars, files, open_handles, emit_log, opened, error, fn_vars>>

\* A faulty variant: a new file is due one record too late
RotateLate == output_file = 0 \/ record_counter_in_file > records_per_file

\* Line 245: a new file is due
Rotate == output_file = 0 \/ record_counter_in_file >= records_per_file

\* A faulty variant: the current file object is left open when the next file is due
AfterCloseKept == open_handles

\* Lines 246-247: the current file object is closed
AfterClose == IF output_file # 0 THEN open_handles \ {output_file} ELSE open_handles

\* Lines 263-270: the handler and the finally clause, the file objects open being handles
Abort(handles, current) ==
    /\ error' = "EmitException"
    /\ open_handles' = handles \ {current}
    /\ Return

\* Lines 203-215: a thread without messages or with an empty prompt is passed over
EmitSkip ==
    /\ pc = "emit"
    /\ todo # <<>>
    /\ BuildRecord(Get(collected_threads, Head(todo), <<>>), include_bots).st = "skip"
    /\ todo' = Tail(todo)
    /\ UNCHANGED <<pc, args, scan_vars, complete_threads_ts, files, open_handles, output_file,
                   file_counter, record_counter_in_file, total_records_written, emit_log,
                   opened, error, exit_status, fn_vars>>

\* Lines 244-258, output_record being built.rec
WriteRecord(thread_ts, built, current) ==
    /\ built.st = "record"
    /\ files' = [(IF Rotate THEN (file_counter :> <<>>) @@ files ELSE files)
                    EXCEPT ![current] = Append(@, built.rec)]
    /\ open_handles' = IF Rotate THEN AfterClose \cup {file_counter} ELSE open_handles
    /\ opened' = IF Rotate THEN Append(opened, file_counter) ELSE opened
    /\ output_file' = current
    /\ file_counter' = IF Rotate THEN file_counter + 1 ELSE file_counter
    /\ record_counter_in_file' = (IF Rotate THEN 0 ELSE record_counter_in_file) + 1
    /\ total_records_written' = total_records_written + 1
    /\ emit_log' = Append(emit_log, [thread_ts |-> thread_ts, part |-> current])

\* Lines 203-258: a record is written, to a new file when one is due
EmitWrite ==
    /\ pc = "emit"
    /\ todo # <<>>
    /\ WriteRecord(Head(todo),
                   BuildRecord(Get(collected_threads, Head(todo), <<>>), include_bots),
                   IF Rotate THEN file_counter ELSE output_file)
    /\ todo' = Tail(todo)
    /\ UNCHANGED <<pc, args, scan_vars, complete_threads_ts, error, exit_status, fn_vars>>

\* Lines 203-270 when the loop body raises: strip of a text that is no str (line 211
\* or 222), open (line 252) or write (line 256) failing
Raise(built, cause) ==
    CASE cause = "strip" ->
            /\ built.st = "raise"
            /\ Abort(open_handles, output_file)
            /\ UNCHANGED <<files, opened, output_file, file_counter>>
      [] cause = "open" ->
            /\ built.st = "record"
            /\ Rotate
            /\ Abort(AfterClose, output_file)
            /\ opened' = Append(opened, file_counter)
            /\ UNCHANGED <<files, output_file, file_counter>>
      [] cause = "write" ->
            /\ built.st = "record"
            /\ IF Rotate
               THEN /\ files' = (file_counter :> <<>>) @@ files
                    /\ opened' = Append(opened, file_counter)
                    /\ output_file' = file_counter
                    /\ file_counter' = file_counter + 1
                    /\ Abort(AfterClose \cup {file_counter}, file_counter)
               ELSE /\ Abort(open_handles, output_file)
                    /\ UNCHANGED <<files, opened, output_file, file_counter>>

\* Lines 203-270: the loop body raises and the run ends through the handler
EmitAbort ==
    /\ pc = "emit"
    /\ todo # <<>>
    /\ \E cause \in {"strip", "open", "write"} :
          Raise(BuildRecord(Get(collected_threads, Head(todo), <<>>), include_bots), cause)
    /\ UNCHANGED <<args, scan_vars, complete_threads_ts, todo, record_counter_in_file,
                   total_records_written, emit_log, fn_vars>>

\* Lines 265-270: the loop is over
FinishEmit ==
    /\ pc = "emit"
    /\ todo = <<>>
    /\ open_handles' = open_handles \ {output_file}
    /\ Return
    /\ UNCHANGED <<args, scan_vars, complete_threads_ts, todo, files, output_file, file_counter,
                   record_counter_in_file, total_records_written, emit_log, opened, error,
                   fn_vars>>

Pipeline(U, max) ==
    \/ OpenInput
    \/ InputNotFound
    \/ NextChunk
    \/ SkipChunk
    \/ JSONError
    \/ SkipMessage(U, max)
    \/ IngestMessage(U, max)
    \/ MessageRaises(U, max)
    \/ EndScan
    \/ EmitSkip
    \/ EmitWrite
    \/ EmitAbort
    \/ FinishEmit

\* extract_text_from_element is called on a tree
CallExtractElement ==
    /\ \E element \in RichTextTrees :
        /\ fn_arg' = element
        /\ fn_result' = PyList(extract_text_from_element(element))
    /\ fn_name' = "extract_text_from_element"
    /\ UNCHANGED pipeline_vars

\* extract_text_from_message is called on a message record
CallExtractMessage ==
    /\ \E message \in MessageRecords :
        /\ fn_arg' = PyDict(message)
        /\ fn_result' = extract_text_from_message(message)
    /\ fn_name' = "extract_text_from_message"
    /\ UNCHANGED pipeline_vars

Init ==
    /\ InitPipeline({1, 2}, {FALSE})
    /\ InitFn

Next == Pipeline(ScanMessages \cup CommonMessages, MaxMessages)

\* The scan and the emit loop over messages that differ in thread and reactions
Spec == Init /\ [][Next]_vars

InitAuthors ==
    /\ InitPipeline({2}, BOOLEAN)
    /\ InitFn

NextAuthors == Pipeline(AuthorMessages \cup CommonMessages, MaxMessages)

\* The same over messages that differ in author and content
SpecAuthors == InitAuthors /\ [][NextAuthors]_vars

InitRotate ==
    /\ InitPipeline({1, 2, 3}, {FALSE})
    /\ InitFn

NextRotate == Pipeline(RotateMessages \cup CommonMessages, MaxRotateMessages)

\* The same over one-message threads, enough of them to fill several files
SpecRotate == InitRotate /\ [][NextRotate]_vars

InitExtract ==
    /\ InitPipeline({1}, {FALSE})
    /\ InitFn

NextExtract ==
    \/ CallExtractElement
    \/ CallExtractMessage

\* The two text functions, each called on its own
SpecExtract == InitExtract /\ [][NextExtract]_vars

InitAttachments ==
    /\ InitPipeline({2}, {FALSE})
    /\ InitFn

NextAttachments == Pipeline(AttachmentMessages \cup CommonMessages, MaxMessages)

\* The same over messages with and without attachments
SpecAttachments == InitAttachments /\ [][NextAttachments]_vars

----------------------------------------------------------------------------
(* The vocabulary of the properties: stated over the raw messages of the input  *)
(* and over what the run wrote, apart from the operators above                  *)

\* The thread root of a raw message: its thread_ts if it has one, else its own ts
ThreadRootOf(raw) == IF "thread_ts" \in DOMAIN raw THEN raw["thread_ts"] ELSE raw["ts"]

\* The reaction names a raw message carries
ReactionNames(raw) ==
    IF "reactions" \in DOMAIN raw /\ raw["reactions"].t = "list"
    THEN LET rs == raw["reactions"].v
         IN  {Get(rs[i].v, "name", PyNone) : i \in {j \in 1..Len(rs) : rs[j].t = "dict"}}
    ELSE {}

\* The reaction names of the accepted messages grouped under the root r, taken together
NamesUnder(r) == UNION {ReactionNames(a) : a \in {b \in accepted : ThreadRootOf(b) = r}}

\* The roots there are
Roots == {ThreadRootOf(a) : a \in accepted} \cup complete_threads_ts

\* How many times the message a is stored under the root r
TimesStored(a, r) ==
    Cardinality({i \in 1..Len(collected_threads[r]) : collected_threads[r][i]["ts"] = a["ts"]})

\* The raw message a stored msg_data was made from
RawOf(msg) == CHOOSE a \in accepted : a["ts"] = msg["ts"]

\* The i-th record written: the part it went to and its place in that part
RecordAt(i) ==
    LET part == emit_log[i].part
    IN  files[part][Cardinality({j \in 1..i : emit_log[j].part = part})]

\* The messages of the thread the i-th record was made from, in the order they arrived
ThreadAt(i) == collected_threads[emit_log[i].thread_ts]

\* A timestamp as a number (in tenths)
NumberOf(ts) == FloatTenths(ts.v)

\* The place in a thread of its message with the smallest ts
Earliest(thread) ==
    CHOOSE i \in 1..Len(thread) :
        \A j \in 1..Len(thread) : NumberOf(thread[i]["ts"]) <= NumberOf(thread[j]["ts"])

\* The messages of a thread at the places I, by ascending ts
RECURSIVE Ascending(_, _)
Ascending(thread, I) ==
    IF I = {} THEN <<>>
    ELSE LET i == CHOOSE x \in I : \A y \in I : NumberOf(thread[x]["ts"]) <= NumberOf(thread[y]["ts"])
         IN  <<thread[i]>> \o Ascending(thread, I \ {i})

\* The messages of a thread but its earliest, by ascending ts
Replies(thread) == Ascending(thread, (1..Len(thread)) \ {Earliest(thread)})

\* The sequences of a sequence, one after the other
RECURSIVE Flatten(_)
Flatten(ss) == IF ss = <<>> THEN <<>> ELSE Head(ss) \o Flatten(Tail(ss))

\* The lines of a text
RECURSIVE Lines(_)
Lines(s) ==
    IF \E i \in 1..Len(s) : s[i] = "\n"
    THEN LET n == CHOOSE i \in 1..Len(s) : s[i] = "\n" /\ \A j \in 1..(i - 1) : s[j] # "\n"
         IN  <<SubSeq(s, 1, n - 1)>> \o Lines(SubSeq(s, n + 1, Len(s)))
    ELSE <<s>>

\* A raw message is bot-authored: it has a bot_id or the subtype bot_message
BotAuthored(raw) ==
    \/ "bot_id" \in DOMAIN raw /\ Truthy(raw["bot_id"])
    \/ Get(raw, "subtype", PyNone) = S_bot_message

\* The prefix a rendered reply is to have: the author's id, Unknown without a user
\* field; the bot's display name, its id without a username (Bot without either)
ExpectedPrefix(raw) ==
    IF BotAuthored(raw)
    THEN <<"B", "o", "t", " ", "[">>
             \o (IF "username" \in DOMAIN raw THEN raw["username"].v
                 ELSE IF "bot_id" \in DOMAIN raw THEN raw["bot_id"].v
                 ELSE <<"B", "o", "t">>)
             \o <<"]", ":">>
    ELSE <<"U", "s", "e", "r", " ", "[">>
             \o (IF "user" \in DOMAIN raw THEN raw["user"].v ELSE <<"U", "n", "k", "n", "o", "w", "n">>)
             \o <<"]", ":">>

\* The trimmed extracted text of a stored message
TextOf(msg) == Strip(extract_text_from_message(msg).v)

\* A reply is rendered: it is not a bot's with the bots left out, and it has a text
\* or files
IsRendered(msg) ==
    /\ include_bots \/ ~BotAuthored(RawOf(msg))
    /\ TextOf(msg) # <<>> \/ Truthy(Get(msg, "files", PyNone))

\* The line a rendered reply is to be
ExpectedLine(msg) == ExpectedPrefix(RawOf(msg)) \o <<" ">> \o TextOf(msg)

\* The completion a thread is to have
ExpectedCompletion(thread) ==
    LET rendered == SelectSeq(Replies(thread), IsRendered)
    IN  Strip(Join(<<"\n">>, [i \in 1..Len(rendered) |-> ExpectedLine(rendered[i])]))

\* The children of a node of a rich-text tree: its elements, else its text or its
\* title sub-node
Children(node) ==
    IF "elements" \in DOMAIN node /\ node["elements"].t = "list" THEN node["elements"].v
    ELSE IF "text" \in DOMAIN node /\ node["text"].t = "dict" THEN <<node["text"]>>
    ELSE IF "title" \in DOMAIN node /\ node["title"].t = "dict" THEN <<node["title"]>>
    ELSE <<>>

\* The nodes of a tree, depth first and left to right, a node before its children
RECURSIVE Preorder(_)
RECURSIVE PreorderAll(_)
Preorder(T) ==
    IF T.t = "dict" THEN <<T.v>> \o PreorderAll(Children(T.v))
    ELSE IF T.t = "list" THEN PreorderAll(T.v)
    ELSE <<>>

PreorderAll(l) == IF l = <<>> THEN <<>> ELSE Preorder(Head(l)) \o PreorderAll(Tail(l))

HasType(node, type) == "type" \in DOMAIN node /\ node["type"] = type

Payload(node, key) == IF key \in DOMAIN node THEN node[key].v ELSE <<>>

\* The rendering of one node by its type; nothing for any other type
OwnRendering(node) ==
    IF HasType(node, S_text) THEN <<PyStr(Payload(node, "text"))>>
    ELSE IF HasType(node, S_user) THEN <<PyStr(<<"<", "@">> \o Payload(node, "user_id") \o <<">">>)>>
    ELSE IF HasType(node, S_link)
    THEN <<PyStr(IF Payload(node, "text") # <<>> THEN Payload(node, "text") ELSE Payload(node, "url"))>>
    ELSE IF HasType(node, S_emoji) THEN <<PyStr(<<":">> \o Payload(node, "name") \o <<":">>)>>
    ELSE IF HasType(node, S_usergroup)
    THEN <<PyStr(<<"<", "!", "s", "u", "b", "t", "e", "a", "m", "^">> \o Payload(node, "usergroup_id") \o <<">">>)>>
    ELSE IF HasType(node, S_channel) THEN <<PyStr(<<"<", "#">> \o Payload(node, "channel_id") \o <<">">>)>>
    ELSE <<>>

\* The renderings of the nodes of a tree, depth first and left to right
DepthFirstRendering(T) ==
    LET nodes == Preorder(T)
    IN  Flatten([i \in 1..Len(nodes) |-> OwnRendering(nodes[i])])

\* The text a raw message stands for: its blocks, then its literal text, then the
\* text of its first attachment or else that attachment's fallback, then nothing
SourceText(raw) ==
    IF ~Truthy(Get(raw, "blocks", PyNone)) /\ ~Truthy(Get(raw, "text", PyNone))
       /\ Truthy(Get(raw, "attachments", PyNone))
    THEN LET first == raw["attachments"].v[1].v
         IN  Strip(PyOr(PyOr(Get(first, "text", PyNone), Get(first, "fallback", PyNone)), EmptyStr).v)
    ELSE Strip(extract_text_from_message(raw).v)

\* The line of a reply with that text, nothing for a reply with no text and no files
SourceLine(msg) ==
    IF SourceText(RawOf(msg)) = <<>> /\ ~Truthy(Get(msg, "files", PyNone)) THEN <<>>
    ELSE <<Prefix(msg) \o <<" ">> \o SourceText(RawOf(msg))>>

\* The record a thread makes with these texts
SourceRecord(thread) ==
    LET replies == Replies(thread)
    IN  [prompt     |-> SourceText(RawOf(thread[Earliest(thread)])),
         completion |-> Strip(Join(<<"\n">>, Flatten([i \in 1..Len(replies) |-> SourceLine(replies[i])])))]

\* ceil(n / c)
CeilDiv(n, c) == (n + c - 1) \div c

----------------------------------------------------------------------------
(* The properties *)

\* C1: once the scan is over, a thread root is in complete_threads_ts if and only if
\* the reaction names of the accepted messages grouped under it, taken together,
\* hold the start marker and the end marker, whichever messages carry them and
\* in whatever order they arrived
C1_CompleteIffBothMarkers ==
    (pc \in {"emit", "done"} /\ error \in {"none", "EmitException"}) =>
        \A r \in Roots :
            r \in complete_threads_ts <=> {start_emoji, end_emoji} \subseteq NamesUnder(r)

\* A thread is complete with its end marker on the message that arrived first and its
\* start marker on a later reply, and another thread with the start marker alone is not
C1_MarkersOnDifferentMessages ==
    /\ pc = "emit"
    /\ \E a \in accepted, b \in accepted :
          /\ ThreadRootOf(a) = ThreadRootOf(b)
          /\ ThreadRootOf(a) \in complete_threads_ts
          /\ "thread_ts" \in DOMAIN a
          /\ ReactionNames(a) = {start_emoji}
          /\ ReactionNames(b) = {end_emoji}
          /\ collected_threads[ThreadRootOf(a)][1]["ts"] = b["ts"]
    /\ \E c \in accepted :
          /\ ReactionNames(c) = {start_emoji}
          /\ ThreadRootOf(c) \notin complete_threads_ts

\* C2: no file ever holds more than records_per_file records and no part number is
\* opened twice; and while the run meets no error, N >= 1 records written make
\* exactly ceil(N / records_per_file) files, numbered 1, 2, ... in the order they were
\* opened, each full but the last, which holds between 1 and records_per_file records
C2_RotationCounts ==
    /\ \A n \in DOMAIN files : Len(files[n]) <= records_per_file
    /\ \A i \in 1..Len(opened), j \in 1..Len(opened) : opened[i] = opened[j] => i = j
    /\ (pc \in {"emit", "done"} /\ error = "none" /\ Len(emit_log) >= 1) =>
          LET k == CeilDiv(Len(emit_log), records_per_file)
          IN  /\ DOMAIN files = 1..k
              /\ opened = [n \in 1..k |-> n]
              /\ \A n \in 1..(k - 1) : Len(files[n]) = records_per_file
              /\ Len(files[k]) \in 1..records_per_file
              /\ (k - 1) * records_per_file + Len(files[k]) = Len(emit_log)

\* Five records with two to a file: three files of 2, 2 and 1 records
C2_FiveRecordsInThreeFiles ==
    /\ pc = "done"
    /\ error = "none"
    /\ records_per_file = 2
    /\ Len(emit_log) = 5
    /\ DOMAIN files = 1..3
    /\ <<Len(files[1]), Len(files[2]), Len(files[3])>> = <<2, 2, 1>>

\* C3: with include_bots false, no line of a completion written begins with "Bot ["
\* and the record is the one its thread makes without its bot-authored messages; with
\* include_bots true, every rendered reply of a bot that has a username or a bot_id
\* is a line of the completion that begins with "Bot [{name, else id}]:"
C3_BotExclusion ==
    \A i \in 1..Len(emit_log) :
        LET completion == Lines(RecordAt(i).completion)
            thread == ThreadAt(i)
            IsHuman(msg) == ~BotAuthored(RawOf(msg))
            IsNamedBot(msg) ==
                BotAuthored(RawOf(msg)) /\ {"username", "bot_id"} \cap DOMAIN RawOf(msg) # {}
            bots == SelectSeq(SelectSeq(Replies(thread), IsRendered), IsNamedBot)
        IN  IF include_bots
            THEN \A b \in 1..Len(bots) :
                    \E l \in 1..Len(completion) : completion[l] = ExpectedLine(bots[b])
            ELSE /\ \A l \in 1..Len(completion) :
                        ~StartsWith(completion[l], <<"B", "o", "t", " ", "[">>)
                 /\ BuildRecord(SelectSeq(thread, IsHuman), FALSE)
                        = [st |-> "record", rec |-> RecordAt(i)]

\* C4: extract_text_from_message returns a string for every message record
C4_AlwaysReturnsString ==
    fn_name = "extract_text_from_message" => fn_result.t = "str"

\* C5: the prompt of a record written is the trimmed extracted text of the message
\* of its thread with the smallest ts as a number, and its completion is made of
\* the other messages by ascending ts as numbers
C5_NumericOrderWithinThread ==
    \A i \in 1..Len(emit_log) :
        LET thread == ThreadAt(i)
        IN  /\ RecordAt(i).prompt = TextOf(thread[Earliest(thread)])
            /\ CompletionParts(Replies(thread), include_bots).ok
            /\ RecordAt(i).completion
                  = Strip(Join(<<"\n">>, CompletionParts(Replies(thread), include_bots).parts))

\* A record is written from a thread of three messages whose earliest ts as a number
\* is not the least as a string, and whose two replies are both rendered
C5_NumericDiffersFromLexical ==
    /\ pc = "done"
    /\ error = "none"
    /\ \E i \in 1..Len(emit_log) :
          LET thread == ThreadAt(i)
          IN  /\ Len(thread) = 3
              /\ \E j \in 1..3 : StrLess(thread[j]["ts"].v, thread[Earliest(thread)]["ts"].v)
              /\ Len(Lines(RecordAt(i).completion)) = 2

\* C6: every accepted message is stored once under its thread root (its thread_ts
\* if it has one, else its ts) and under no other root, and nothing else is stored
C6_StoredUnderItsRoot ==
    /\ \A a \in accepted :
          /\ ThreadRootOf(a) \in DOMAIN collected_threads
          /\ \A r \in DOMAIN collected_threads :
                TimesStored(a, r) = IF r = ThreadRootOf(a) THEN 1 ELSE 0
    /\ \A r \in DOMAIN collected_threads :
          \A i \in 1..Len(collected_threads[r]) :
              \E a \in accepted : a["ts"] = collected_threads[r][i]["ts"]

\* A reply arrived before the message it replies to, over two chunks, and the two are
\* in one thread
C6_ReplyBeforeItsRoot ==
    /\ chunk_count = 2
    /\ \E a \in accepted, b \in accepted :
          /\ "thread_ts" \in DOMAIN a
          /\ "thread_ts" \notin DOMAIN b
          /\ a["thread_ts"] = b["ts"]
          /\ a["ts"] # b["ts"]
          /\ b["ts"] \in DOMAIN collected_threads
          /\ Len(collected_threads[b["ts"]]) = 2
          /\ collected_threads[b["ts"]][1]["ts"] = a["ts"]
          /\ collected_threads[b["ts"]][2]["ts"] = b["ts"]

\* C7: of two records written, the one whose thread root is the smaller timestamp
\* is written first: earlier in the same file or in a file with a lower number
C7_AscendingRootOrder ==
    \A i \in 1..Len(emit_log), j \in 1..Len(emit_log) :
        NumberOf(emit_log[i].thread_ts) < NumberOf(emit_log[j].thread_ts) =>
            i < j /\ emit_log[i].part <= emit_log[j].part

C9_FatalErrorNonZeroStatus ==
    (pc = "done" /\ error \in {"FileNotFoundError", "JSONError", "EmitException"}) =>
        exit_status # 0

\* C10: the completion of a record written is made of one line "{prefix} {text}"
\* for each rendered reply, the prefix being "User [{user}]:", with Unknown for a
\* message without a user field, or "Bot [{username}]:", with the bot_id for a bot
\* without a username; a reply with an empty text and no files gives no line
C10_LinePrefixes ==
    \A i \in 1..Len(emit_log) : RecordAt(i).completion = ExpectedCompletion(ThreadAt(i))

\* C11: when the run ends without an error, every complete thread whose first
\* message has a text (from its blocks, else its literal text, else its first
\* attachment's text or fallback) has its record written, the prompt and each line of
\* the completion made of these texts
C11_AttachmentTextUsed ==
    (pc = "done" /\ error = "none") =>
        \A r \in complete_threads_ts :
            SourceRecord(collected_threads[r]).prompt # <<>> =>
                \E i \in 1..Len(emit_log) :
                    /\ emit_log[i].thread_ts = r
                    /\ RecordAt(i) = SourceRecord(collected_threads[r])

\* Every file keeps the records it has: none is removed, shortened or rewritten
NoRollback ==
    \A n \in DOMAIN files :
        /\ n \in DOMAIN files'
        /\ Len(files'[n]) >= Len(files[n])
        /\ SubSeq(files'[n], 1, Len(files[n])) = files[n]

\* C12: at most one output file is open at any time, and it is the current one; once
\* process_slack_export has returned, on the normal path and on every error path,
\* no output file is open; and no step removes or changes a record already written
C12_OneFileOpenAndClosedOnReturn ==
    /\ [](/\ Cardinality(open_handles) <= 1
          /\ open_handles \subseteq {output_file}
          /\ pc = "done" => open_handles = {})
    /\ [][NoRollback]_vars

\* The run has ended through the handler after the open of the second file failed:
\* the first file keeps its records and nothing is open
C12_FailedOpenOfNextFile ==
    /\ pc = "done"
    /\ error = "EmitException"
    /\ opened = <<1, 2>>
    /\ DOMAIN files = {1}
    /\ Len(files[1]) = records_per_file
    /\ open_handles = {}

====
